---- MODULE Spec2Model ----
(***************************************************************************)
(* Model of the issue analysis and match-scoring engine of GSOC Buddy AI   *)
(* (src/utils/ai_analyzer.py, class IssueAnalyzer) and of its callers.     *)
(*                                                                         *)
(* Python str values that the code inspects character by character (the    *)
(* AI reply, titles, descriptions, skills) are sequences of one-character  *)
(* strings; a Python dict is a function from its keys (TLA+ strings) to    *)
(* its values, so that the presence of a key is DOMAIN membership.         *)
(***************************************************************************)
EXTENDS Integers, Sequences, FiniteSets, TLC

VARIABLES analysis_cache, ai_calls, last, succeeded, pc, response_text, parsed,
          match_args, match_report

vars == <<analysis_cache, ai_calls, last, succeeded, pc, response_text, parsed,
          match_args, match_report>>

---------------------------------------------------------------------------
(* Bounds of the model.                                                    *)

\* Largest number of lines of a reply handed to the parser in SpecParser.
MaxLines == 3

\* Largest number of generate_content invocations in one behaviour.
MaxCalls == 3

\* Largest number of issues of one batch.
MaxBatch == 3

\* Largest number of user skills in SpecScorer.
MaxSkills == 2

\* Largest number of required skills of an analysis in SpecScorer.
MaxRequired == 5

\* Largest number of required skills of the analyses of SpecScorer that list
\* one skill several times and then the other.
MaxRequiredLong == 9

---------------------------------------------------------------------------
(* Python str and dict primitives.                                         *)

Whitespace == {" ", "\t", "\n", "\r"}

UpperLetters == <<"A","B","C","D","E","F","G","H","I","J","K","L","M","N","O","P","Q","R","S","T","U","V","W","X","Y","Z">>

LowerLetters == <<"a","b","c","d","e","f","g","h","i","j","k","l","m","n","o","p","q","r","s","t","u","v","w","x","y","z">>

\* The lower-case letter of every upper-case letter.
ToLower ==
    [c \in {UpperLetters[i] : i \in 1..Len(UpperLetters)} |->
        LowerLetters[CHOOSE i \in 1..Len(UpperLetters) : UpperLetters[i] = c]]

\* str.lower() on one character.
LowerChar(c) == IF c \in DOMAIN ToLower THEN ToLower[c] ELSE c

\* str.lower()
Lower(s) == [i \in 1..Len(s) |-> LowerChar(s[i])]

RECURSIVE LStrip(_)
LStrip(s) ==
    IF s # <<>> /\ Head(s) \in Whitespace THEN LStrip(Tail(s)) ELSE s

RECURSIVE RStrip(_)
RStrip(s) ==
    IF s # <<>> /\ s[Len(s)] \in Whitespace
    THEN RStrip(SubSeq(s, 1, Len(s) - 1))
    ELSE s

\* str.strip()
Strip(s) == RStrip(LStrip(s))

\* str.startswith(prefix)
StartsWith(s, prefix) ==
    Len(s) >= Len(prefix) /\ SubSeq(s, 1, Len(prefix)) = prefix

\* Position of the first occurrence of character c in s at or after i, 0 when
\* absent.
RECURSIVE IndexFrom(_, _, _)
IndexFrom(s, c, i) ==
    IF i > Len(s) THEN 0
    ELSE IF s[i] = c THEN i
    ELSE IndexFrom(s, c, i + 1)

\* Position of the first occurrence of character c in s, 0 when absent.
IndexOf(s, c) == IndexFrom(s, c, 1)

\* str.split(c): the pieces of s between occurrences of the character c.
RECURSIVE Split(_, _)
Split(s, c) ==
    LET i == IndexOf(s, c)
    IN  IF i = 0 THEN <<s>>
        ELSE <<SubSeq(s, 1, i - 1)>> \o Split(SubSeq(s, i + 1, Len(s)), c)

\* line.split(":", 1)[1]: what follows the first colon of the line.
AfterColon(line) == SubSeq(line, IndexOf(line, ":") + 1, Len(line))

\* sep.join(parts)
RECURSIVE Join(_, _)
Join(parts, sep) ==
    IF parts = <<>> THEN <<>>
    ELSE IF Len(parts) = 1 THEN parts[1]
    ELSE parts[1] \o sep \o Join(Tail(parts), sep)

\* s[:n]
Prefix(s, n) == SubSeq(s, 1, IF Len(s) < n THEN Len(s) ELSE n)

\* d[k] = v on a dict
DictSet(d, k, v) == [x \in DOMAIN d \cup {k} |-> IF x = k THEN v ELSE d[x]]

\* The list comprehension [s.strip() for s in pieces if s.strip()]
RECURSIVE StripNonEmpty(_)
StripNonEmpty(pieces) ==
    IF pieces = <<>> THEN <<>>
    ELSE LET t == Strip(Head(pieces))
         IN  (IF t = <<>> THEN <<>> ELSE <<t>>) \o StripNonEmpty(Tail(pieces))

---------------------------------------------------------------------------
(* IssueAnalyzer._parse_ai_response                                        *)

\* The dict the parser starts from.
DefaultResult ==
    [difficulty |-> <<"u","n","k","n","o","w","n">>,
     skills_required |-> <<>>,
     estimated_hours |-> <<"u","n","k","n","o","w","n">>,
     good_for_beginners |-> FALSE,
     concepts_needed |-> <<>>,
     explanation |-> <<>>]

\* ParseLine that writes the GOOD_FOR_GSOC answer to good_for_beginners.
ParseLineGsocAsBeginners(result, raw) ==
    LET line == Strip(raw)
        value == Strip(AfterColon(line))
    IN  IF StartsWith(line, <<"D","I","F","F","I","C","U","L","T","Y",":">>) THEN
            DictSet(DictSet(result, "difficulty", Lower(value)),
                    "good_for_beginners", Lower(value) = <<"b","e","g","i","n","n","e","r">>)
        ELSE IF StartsWith(line, <<"S","K","I","L","L","S",":">>) THEN
            DictSet(result, "skills_required", StripNonEmpty(Split(value, ",")))
        ELSE IF StartsWith(line, <<"T","I","M","E","_","E","S","T","I","M","A","T","E",":">>) THEN
            DictSet(result, "estimated_hours", value)
        ELSE IF StartsWith(line, <<"G","O","O","D","_","F","O","R","_","G","S","O","C",":">>) THEN
            DictSet(result, "good_for_beginners", Lower(value) = <<"y","e","s">>)
        ELSE IF StartsWith(line, <<"C","O","N","C","E","P","T","S",":">>) THEN
            DictSet(result, "concepts_needed", StripNonEmpty(Split(value, ",")))
        ELSE IF StartsWith(line, <<"E","X","P","L","A","N","A","T","I","O","N",":">>) THEN
            DictSet(result, "explanation", value)
        ELSE result

\* One turn of the loop over the lines: the if/elif chain on the stripped line.
ParseLine(result, raw) ==
    LET line == Strip(raw)
        value == Strip(AfterColon(line))
    IN  IF StartsWith(line, <<"D","I","F","F","I","C","U","L","T","Y",":">>) THEN
            DictSet(DictSet(result, "difficulty", Lower(value)),
                    "good_for_beginners", Lower(value) = <<"b","e","g","i","n","n","e","r">>)
        ELSE IF StartsWith(line, <<"S","K","I","L","L","S",":">>) THEN
            DictSet(result, "skills_required", StripNonEmpty(Split(value, ",")))
        ELSE IF StartsWith(line, <<"T","I","M","E","_","E","S","T","I","M","A","T","E",":">>) THEN
            DictSet(result, "estimated_hours", value)
        ELSE IF StartsWith(line, <<"G","O","O","D","_","F","O","R","_","G","S","O","C",":">>) THEN
            DictSet(result, "good_for_gsoc", Lower(value) = <<"y","e","s">>)
        ELSE IF StartsWith(line, <<"C","O","N","C","E","P","T","S",":">>) THEN
            DictSet(result, "concepts_needed", StripNonEmpty(Split(value, ",")))
        ELSE IF StartsWith(line, <<"E","X","P","L","A","N","A","T","I","O","N",":">>) THEN
            DictSet(result, "explanation", value)
        ELSE result

RECURSIVE ParseLines(_, _)
ParseLines(result, lines) ==
    IF lines = <<>> THEN result
    ELSE ParseLines(ParseLine(result, Head(lines)), Tail(lines))

\* The parser on a str.  Every operation in its try block is defined on every
\* str (split(":", 1)[1] is only reached behind a startswith("...:")), so the
\* except branch that records parsing_error is never taken for a str.
_parse_ai_response(text) == ParseLines(DefaultResult, Split(Strip(text), "\n"))

---------------------------------------------------------------------------
(* The parser as a pure function: SpecParser applies it to bounded replies. *)

LinePool ==
    {<<"D","I","F","F","I","C","U","L","T","Y",":"," ","B","e","g","i","n","n","e","r">>,
     <<"D","I","F","F","I","C","U","L","T","Y",":"," ","a","d","v","a","n","c","e","d">>,
     <<" "," ","S","K","I","L","L","S",":"," ","P","y","t","h","o","n",","," ","G","i","t",",">>,
     <<"T","I","M","E","_","E","S","T","I","M","A","T","E",":"," ","8","-","1","0">>,
     <<"G","O","O","D","_","F","O","R","_","G","S","O","C",":"," ","Y","e","s">>,
     <<"E","X","P","L","A","N","A","T","I","O","N",":"," ","o","k">>,
     <<"G","S","O","C","_","F","R","I","E","N","D","L","Y",":"," ","Y","e","s">>,
     <<"d","i","f","f","i","c","u","l","t","y",":"," ","B","e","g","i","n","n","e","r">>,
     <<"T","I","M","E",":"," ","2"," ","h","o","u","r","s">>,
     <<"h","e","l","l","o">>}

LineSeqs == UNION {[1..n -> LinePool] : n \in 0..MaxLines}

\* The replies of SpecParser: up to MaxLines lines of the pool, in any order
\* and with repetitions, joined by newlines.
ResponseTexts == {Join(lines, <<"\n">>) : lines \in LineSeqs}

InitParser ==
    /\ analysis_cache = <<>>
    /\ ai_calls = 0
    /\ last = [op |-> "none"]
    /\ succeeded = {}
    /\ pc = "ready"
    /\ response_text \in ResponseTexts
    /\ parsed = <<>>
    /\ match_args = <<>>
    /\ match_report = <<>>

\* One application of the parser to the reply chosen by InitParser.
ParseResponse ==
    /\ pc = "ready"
    /\ pc' = "done"
    /\ parsed' = _parse_ai_response(response_text)
    /\ UNCHANGED <<analysis_cache, ai_calls, last, succeeded, response_text,
                   match_args, match_report>>

NextParser == ParseResponse

SpecParser == InitParser /\ [][NextParser]_vars

---------------------------------------------------------------------------
(* The AI capability: model.generate_content(prompt) and response.text.     *)

\* What the call can raise: the provider failures that the repository's own
\* API check handles one by one, and the three classes analyze_issue catches
\* (response.text raises ValueError for a reply without text).
ProviderFailures ==
    {"InvalidArgument", "PermissionDenied", "ResourceExhausted", "NotFound",
     "GoogleAPIError", "ConnectionError", "TimeoutError"}

CaughtClasses == {"ValueError", "AttributeError", "TypeError"}

\* isinstance(error, (ValueError, AttributeError, TypeError)): the google
\* exceptions derive from Exception, ConnectionError and TimeoutError from
\* OSError, so none of the provider failures is an instance of the three.
IsCaught(exc) == exc \in CaughtClasses

\* A reply in the format the prompt of _create_analysis_prompt asks for.
PromptFormatReply ==
    <<"D","I","F","F","I","C","U","L","T","Y",":"," ","I","n","t","e","r","m","e","d","i","a","t","e","\n","S","K","I","L","L","S",":"," ","P","y","t","h","o","n",","," ","G","i","t","\n","T","I","M","E","_","E","S","T","I","M","A","T","E",":"," ","8","-","1","0","\n","G","O","O","D","_","F","O","R","_","G","S","O","C",":"," ","y","e","s","\n","C","O","N","C","E","P","T","S",":"," ","l","o","o","p","s","\n","E","X","P","L","A","N","A","T","I","O","N",":"," ","o","k">>

\* A reply in the format DIFFICULTY / SKILLS / TIME / GSOC_FRIENDLY / CATEGORY /
\* PRIORITY / REASONING.
SevenFieldReply ==
    <<"D","I","F","F","I","C","U","L","T","Y",":"," ","B","e","g","i","n","n","e","r","\n","S","K","I","L","L","S",":"," ","M","a","r","k","d","o","w","n","\n","T","I","M","E",":"," ","1","\n","G","S","O","C","_","F","R","I","E","N","D","L","Y",":"," ","Y","e","s","\n","C","A","T","E","G","O","R","Y",":"," ","d","o","c","u","m","e","n","t","a","t","i","o","n","\n","P","R","I","O","R","I","T","Y",":"," ","L","o","w","\n","R","E","A","S","O","N","I","N","G",":"," ","S","i","m","p","l","e"," ","t","e","x","t"," ","f","i","x",".">>

Replies == {PromptFormatReply, SevenFieldReply}

NoAI == [ok |-> FALSE, text |-> <<>>, exc |-> "none", message |-> "none"]

AISuccesses == {[ok |-> TRUE, text |-> r, exc |-> "none", message |-> "none"] : r \in Replies}

AIFailures ==
    {[ok |-> FALSE, text |-> <<>>, exc |-> e, message |-> "provider message"] :
        e \in ProviderFailures \cup CaughtClasses}

AIOutcomes == AISuccesses \cup AIFailures

---------------------------------------------------------------------------
(* IssueAnalyzer.analyze_issue                                             *)

\* description[:100] of the cache key
CacheKeyDescriptionChars == 100

\* description[:200] of original_description
OriginalDescriptionChars == 200

\* cache_key = f"{title}:{description[:100]}"
CacheKey(title, description) ==
    title \o <<":">> \o Prefix(description, CacheKeyDescriptionChars)

\* labels or []  (labels is None when the caller passes none)
LabelsOrEmpty(labels) ==
    IF labels.given /\ labels.list # <<>> THEN labels.list ELSE <<>>

\* The dict returned from the except branch.
ErrorAnalysis(ai, title) ==
    [error |-> ai.message,
     difficulty |-> <<"u","n","k","n","o","w","n">>,
     skills_required |-> <<>>,
     good_for_beginners |-> FALSE,
     original_title |-> title]

\* SuccessAnalysis that gives every result an error key.
SuccessAnalysisWithErrorKey(ai, title, description, labels) ==
    DictSet(DictSet(DictSet(DictSet(_parse_ai_response(ai.text),
        "original_title", title),
        "original_description", Prefix(description, OriginalDescriptionChars)),
        "labels", LabelsOrEmpty(labels)),
        "error", "none")

\* The success path: parse, add metadata.
SuccessAnalysis(ai, title, description, labels) ==
    DictSet(DictSet(DictSet(_parse_ai_response(ai.text),
        "original_title", title),
        "original_description", Prefix(description, OriginalDescriptionChars)),
        "labels", LabelsOrEmpty(labels))

\* analyze_issue without the cache lookup.
analyze_issue_NoLookup(cache, title, description, labels, ai) ==
    LET cache_key == CacheKey(title, description)
    IN  IF ai.ok THEN
            LET analysis == SuccessAnalysis(ai, title, description, labels)
            IN  [status |-> "returned", result |-> analysis,
                 exc |-> "none", called |-> TRUE,
                 cache |-> DictSet(cache, cache_key, analysis)]
        ELSE IF IsCaught(ai.exc) THEN
            [status |-> "returned", result |-> ErrorAnalysis(ai, title),
             exc |-> "none", called |-> TRUE, cache |-> cache]
        ELSE
            [status |-> "raised", result |-> <<>>,
             exc |-> ai.exc, called |-> TRUE, cache |-> cache]

\* analyze_issue that stores the error result of a failed call in the cache.
analyze_issue_CachesError(cache, title, description, labels, ai) ==
    LET cache_key == CacheKey(title, description)
    IN  IF cache_key \in DOMAIN cache THEN
            [status |-> "returned", result |-> cache[cache_key],
             exc |-> "none", called |-> FALSE, cache |-> cache]
        ELSE IF ai.ok THEN
            LET analysis == SuccessAnalysis(ai, title, description, labels)
            IN  [status |-> "returned", result |-> analysis,
                 exc |-> "none", called |-> TRUE,
                 cache |-> DictSet(cache, cache_key, analysis)]
        ELSE IF IsCaught(ai.exc) THEN
            [status |-> "returned", result |-> ErrorAnalysis(ai, title),
             exc |-> "none", called |-> TRUE,
             cache |-> DictSet(cache, cache_key, ErrorAnalysis(ai, title))]
        ELSE
            [status |-> "raised", result |-> <<>>,
             exc |-> ai.exc, called |-> TRUE, cache |-> cache]

\* analyze_issue with a cache that keeps the latest analysis only.
analyze_issue_KeepsLatestOnly(cache, title, description, labels, ai) ==
    LET cache_key == CacheKey(title, description)
    IN  IF cache_key \in DOMAIN cache THEN
            [status |-> "returned", result |-> cache[cache_key],
             exc |-> "none", called |-> FALSE, cache |-> cache]
        ELSE IF ai.ok THEN
            LET analysis == SuccessAnalysis(ai, title, description, labels)
            IN  [status |-> "returned", result |-> analysis,
                 exc |-> "none", called |-> TRUE,
                 cache |-> DictSet(<<>>, cache_key, analysis)]
        ELSE IF IsCaught(ai.exc) THEN
            [status |-> "returned", result |-> ErrorAnalysis(ai, title),
             exc |-> "none", called |-> TRUE, cache |-> cache]
        ELSE
            [status |-> "raised", result |-> <<>>,
             exc |-> ai.exc, called |-> TRUE, cache |-> cache]

\* One call of analyze_issue on the cache `cache`, with `ai` the outcome of the
\* AI capability should it be invoked.  status is "returned" or "raised";
\* called tells whether generate_content was invoked; cache is the cache after.
analyze_issue(cache, title, description, labels, ai) ==
    LET cache_key == CacheKey(title, description)
    IN  IF cache_key \in DOMAIN cache THEN
            [status |-> "returned", result |-> cache[cache_key],
             exc |-> "none", called |-> FALSE, cache |-> cache]
        ELSE IF ai.ok THEN
            LET analysis == SuccessAnalysis(ai, title, description, labels)
            IN  [status |-> "returned", result |-> analysis,
                 exc |-> "none", called |-> TRUE,
                 cache |-> DictSet(cache, cache_key, analysis)]
        ELSE IF IsCaught(ai.exc) THEN
            [status |-> "returned", result |-> ErrorAnalysis(ai, title),
             exc |-> "none", called |-> TRUE, cache |-> cache]
        ELSE
            [status |-> "raised", result |-> <<>>,
             exc |-> ai.exc, called |-> TRUE, cache |-> cache]

---------------------------------------------------------------------------
(* The analyzer as a state machine: Spec.                                   *)

LongText(n, tail) == [i \in 1..n |-> "x"] \o tail

\* The issues the callers pass: two whose title and description differ and
\* whose "title:description" texts agree, and two whose descriptions agree on
\* the characters of the cache key and differ after them, one of them longer
\* than the characters kept as original_description.
Issues ==
    {[title |-> <<"a",":","b">>, description |-> <<"c">>],
     [title |-> <<"a">>, description |-> <<"b",":","c">>],
     [title |-> <<"a">>, description |-> LongText(CacheKeyDescriptionChars, <<"y">>)],
     [title |-> <<"a">>, description |-> LongText(OriginalDescriptionChars + 1, <<"z">>)]}

\* The labels argument: not given (None), or a list.
LabelArgs ==
    {[given |-> FALSE, list |-> <<>>],
     [given |-> TRUE, list |-> <<"bug">>]}

\* Whether a returned result is an analysis rather than an error result.
IsSuccess(r) == r.status = "returned" /\ "error" \notin DOMAIN r.result

\* State after IssueAnalyzer.__init__: an empty cache.
Init ==
    /\ analysis_cache = <<>>
    /\ ai_calls = 0
    /\ last = [op |-> "none"]
    /\ succeeded = {}
    /\ pc = "ready"
    /\ response_text = <<>>
    /\ parsed = <<>>
    /\ match_args = <<>>
    /\ match_report = <<>>

\* A caller calls analyze_issue.  ai_calls counts the invocations of the AI
\* capability and succeeded collects the (title, description) pairs of the
\* calls that returned an analysis.
AnalyzeIssue ==
    \E issue \in Issues, labels \in LabelArgs, ai \in AIOutcomes :
      \E r \in {analyze_issue(analysis_cache, issue.title, issue.description,
                              labels, ai)} :
        /\ r.called => ai_calls < MaxCalls
        /\ analysis_cache' = r.cache
        /\ ai_calls' = ai_calls + (IF r.called THEN 1 ELSE 0)
        /\ last' = [op |-> "analyze_issue", title |-> issue.title,
                    description |-> issue.description, labels |-> labels,
                    ai |-> IF r.called THEN ai ELSE NoAI,
                    called |-> r.called, status |-> r.status,
                    result |-> r.result, exc |-> r.exc]
        /\ succeeded' = IF IsSuccess(r)
                        THEN succeeded \cup {<<issue.title, issue.description>>}
                        ELSE succeeded
        /\ UNCHANGED <<pc, response_text, parsed, match_args, match_report>>

Next == AnalyzeIssue

Spec == Init /\ [][Next]_vars

---------------------------------------------------------------------------
(* batch_analyze: a sequential loop over the issues that calls analyze_issue *)
(* on each, in input order, and adds to each result its 1-based position    *)
(* and the issue's title.  SpecBatch runs one batch on an analyzer that is  *)
(* fresh or has analysed one issue before.                                  *)

\* The result of the issue at position i of the batch.
BatchResult(result, issue, i) ==
    DictSet(DictSet(result, "issue_number", i), "issue_title", issue.title)

\* The loop from position i on.  acc holds the results so far, the cache, and
\* for every position reached whether the AI capability was invoked.  An
\* exception of analyze_issue ends the loop and the results are lost.
RECURSIVE BatchLoop(_, _, _, _)
BatchLoop(acc, issues, ais, i) ==
    IF i > Len(issues) \/ acc.status = "raised" THEN acc
    ELSE LET r == analyze_issue(acc.cache, issues[i].title,
                                issues[i].description, issues[i].labels, ais[i])
         IN  BatchLoop(
                [status |-> r.status,
                 exc |-> r.exc,
                 results |-> IF r.status = "returned"
                             THEN Append(acc.results,
                                         BatchResult(r.result, issues[i], i))
                             ELSE <<>>,
                 called |-> Append(acc.called, r.called),
                 cache |-> r.cache],
                issues, ais, i + 1)

\* batch_analyze(issues) on the cache `cache`; ais[i] is the outcome of the AI
\* capability should the call for issue i invoke it.
batch_analyze(cache, issues, ais) ==
    BatchLoop([status |-> "returned", exc |-> "none", results |-> <<>>,
               called |-> <<>>, cache |-> cache],
              issues, ais, 1)

\* The issues of a batch carry their labels.
BatchIssues ==
    {[title |-> issue.title, description |-> issue.description,
      labels |-> [given |-> TRUE, list |-> <<"bug">>]] : issue \in Issues}

\* What the AI capability does for one issue of a batch: an analysis, a quota
\* failure, or a reply without text.
BatchOutcomes ==
    {o \in AIOutcomes :
        \/ o.ok /\ o.text = PromptFormatReply
        \/ o.exc \in {"ResourceExhausted", "ValueError"}}

\* The analyzers a batch runs on: a fresh one, and one per issue that has
\* analysed that issue.
Analyzed ==
    {<<>>} \cup
    {<<issue>> : issue \in BatchIssues}

InitBatch ==
    \E before \in Analyzed :
      \E b \in {batch_analyze(<<>>, before,
                              [i \in 1..Len(before) |->
                                [ok |-> TRUE, text |-> PromptFormatReply,
                                 exc |-> "none", message |-> "none"]])} :
        /\ analysis_cache = b.cache
        /\ ai_calls = Len(before)
        /\ last = [op |-> "none"]
        /\ succeeded = {<<before[i].title, before[i].description>> :
                            i \in 1..Len(before)}
        /\ pc = "ready"
        /\ response_text = <<>>
        /\ parsed = <<>>
        /\ match_args = <<>>
        /\ match_report = <<>>

\* A caller calls batch_analyze.
BatchAnalyze ==
    /\ pc = "ready"
    /\ \E n \in 1..MaxBatch :
        \E issues \in [1..n -> BatchIssues], ais \in [1..n -> BatchOutcomes] :
          \E b \in {batch_analyze(analysis_cache, issues, ais)} :
            /\ analysis_cache' = b.cache
            /\ ai_calls' = ai_calls
                    + Cardinality({i \in 1..Len(b.called) : b.called[i]})
            /\ last' = [op |-> "batch_analyze", issues |-> issues,
                        ais |-> [i \in 1..n |->
                                    IF i <= Len(b.called) /\ b.called[i]
                                    THEN ais[i] ELSE NoAI],
                        called |-> b.called, status |-> b.status,
                        results |-> b.results, exc |-> b.exc]
            /\ succeeded' = succeeded \cup
                    {<<issues[i].title, issues[i].description>> :
                        i \in {j \in 1..Len(b.results) :
                                    "error" \notin DOMAIN b.results[j]}}
    /\ pc' = "done"
    /\ UNCHANGED <<response_text, parsed, match_args, match_report>>

NextBatch == BatchAnalyze

SpecBatch == InitBatch /\ [][NextBatch]_vars

---------------------------------------------------------------------------
(* IssueAnalyzer.calculate_match_score                                      *)
(*                                                                         *)
(* skill_match is the fraction num/den and level_match a number of tenths;  *)
(* round(x * 100) is Python's round, to the nearest integer with ties to    *)
(* the even one.  For up to 12 required skills the float products m/n * 100 *)
(* and level * 100 round to the same integers as the exact values.          *)

\* dict.get(k, default)
DictGet(d, k, default) == IF k \in DOMAIN d THEN d[k] ELSE default

\* [s.lower() for s in skills]
LowerAll(skills) == [i \in 1..Len(skills) |-> Lower(skills[i])]

\* x in list
InList(x, list) == \E i \in 1..Len(list) : list[i] = x

\* The selection that looks the required skill up as it is written.
RECURSIVE SelectSkillsAsWritten(_, _, _)
SelectSkillsAsWritten(skills, user_skills_lower, wanted) ==
    IF skills = <<>> THEN <<>>
    ELSE (IF InList(Head(skills), user_skills_lower) = wanted
          THEN <<Head(skills)>> ELSE <<>>)
         \o SelectSkillsAsWritten(Tail(skills), user_skills_lower, wanted)

\* [skill for skill in skills if (skill.lower() in user_skills_lower) == wanted]
RECURSIVE SelectSkills(_, _, _)
SelectSkills(skills, user_skills_lower, wanted) ==
    IF skills = <<>> THEN <<>>
    ELSE (IF InList(Lower(Head(skills)), user_skills_lower) = wanted
          THEN <<Head(skills)>> ELSE <<>>)
         \o SelectSkills(Tail(skills), user_skills_lower, wanted)

\* round(100 * num / den) of the exact quotient, a tie to the even integer.
RoundPercent(num, den) ==
    LET q == (100 * num) \div den
        r == (100 * num) % den
    IN  IF 2 * r > den THEN q + 1
        ELSE IF 2 * r < den THEN q
        ELSE IF q % 2 = 0 THEN q ELSE q + 1

---------------------------------------------------------------------------
(* The float arithmetic of the scorer.  A Python float is an IEEE-754       *)
(* binary64 number: 53 significant bits, every operation rounded to the     *)
(* nearest such number, ties to the even one.  The scorer's floats lie      *)
(* between 2^-7 and 2^7 (or are 0), so each is a whole multiple of 2^-60    *)
(* and is kept here as that multiple, a natural number written in limbs of  *)
(* 12 bits, lowest limb first.                                              *)

\* Bits of a limb, and the number of values of a limb.
LimbBits == 12

LimbBase == 2 ^ LimbBits

\* Significant bits of a binary64 number.
MantissaBits == 53

\* Limbs of the fraction: a float x is kept as the natural x * 2^60.
FractionLimbs == 5

\* The limbs of the number whose limbs, before carrying, are digits, plus c.
RECURSIVE Carry(_, _)
Carry(digits, c) ==
    IF digits = <<>>
    THEN IF c = 0 THEN <<>> ELSE <<(c % LimbBase)>> \o Carry(<<>>, c \div LimbBase)
    ELSE LET t == Head(digits) + c
         IN  <<t % LimbBase>> \o Carry(Tail(digits), t \div LimbBase)

\* The i-th limb, 0 beyond the last.
Limb(a, i) == IF i <= Len(a) THEN a[i] ELSE 0

\* The index of the highest limb that is not 0; 0 for the number 0.
TopLimb(a) ==
    LET used == {i \in 1..Len(a) : a[i] # 0}
    IN  IF used = {} THEN 0 ELSE CHOOSE i \in used : \A j \in used : j <= i

\* The number without limbs of 0 at its high end.
Trim(a) == SubSeq(a, 1, TopLimb(a))

BigOfInt(v) == Carry(<<v>>, 0)

BigAdd(a, b) ==
    LET n == IF Len(a) >= Len(b) THEN Len(a) ELSE Len(b)
    IN  Trim(Carry([i \in 1..n |-> Limb(a, i) + Limb(b, i)], 0))

\* The sum of a[i] * b[k - i + 1] over the limbs i..Len(a) of a.
RECURSIVE ConvSum(_, _, _, _)
ConvSum(a, b, k, i) ==
    IF i > Len(a) THEN 0
    ELSE (IF k - i + 1 >= 1 /\ k - i + 1 <= Len(b)
          THEN a[i] * b[k - i + 1] ELSE 0)
         + ConvSum(a, b, k, i + 1)

BigMul(a, b) ==
    Trim(Carry([k \in 1..(Len(a) + Len(b)) |-> ConvSum(a, b, k, 1)], 0))

\* a * 2^(LimbBits * n)
ShiftLimbsUp(a, n) == IF a = <<>> THEN <<>> ELSE [i \in 1..n |-> 0] \o a

\* a \div 2^(LimbBits * n)
ShiftLimbsDown(a, n) == SubSeq(a, n + 1, Len(a))

\* Quotient and remainder of a by the small number d.
RECURSIVE BigDivSmall(_, _)
BigDivSmall(a, d) ==
    IF a = <<>> THEN [quot |-> <<>>, rem |-> 0]
    ELSE LET high == BigDivSmall(Tail(a), d)
             t == high.rem * LimbBase + Head(a)
         IN  [quot |-> <<t \div d>> \o high.quot, rem |-> t % d]

\* The number of bits of a: 0 for 0, else 1 + the position of its top bit.
BitLength(a) ==
    LET top == TopLimb(a)
    IN  IF top = 0 THEN 0
        ELSE (top - 1) * LimbBits
             + (CHOOSE n \in 1..LimbBits :
                    2 ^ (n - 1) <= a[top] /\ a[top] < 2 ^ n)

\* Bit i of a, bit 0 the lowest.
Bit(a, i) == (Limb(a, (i \div LimbBits) + 1) \div (2 ^ (i % LimbBits))) % 2

\* Whether one of the bits 0..k-1 of a is 1.
LowBitsNonzero(a, k) ==
    \/ \E j \in 1..Len(a) : j <= k \div LimbBits /\ a[j] # 0
    \/ (Limb(a, (k \div LimbBits) + 1) % (2 ^ (k % LimbBits))) # 0

\* a with its bits 0..k-1 set to 0.
ClearLowBits(a, k) ==
    [j \in 1..Len(a) |->
        IF j <= k \div LimbBits THEN 0
        ELSE IF j = (k \div LimbBits) + 1
             THEN a[j] - (a[j] % (2 ^ (k % LimbBits)))
             ELSE a[j]]

\* 2^k
BigPow2(k) ==
    [j \in 1..((k \div LimbBits) + 1) |->
        IF j = (k \div LimbBits) + 1 THEN 2 ^ (k % LimbBits) ELSE 0]

\* a < b
BigLess(a, b) ==
    LET n == IF Len(a) >= Len(b) THEN Len(a) ELSE Len(b)
    IN  \E i \in 1..n :
            /\ Limb(a, i) < Limb(b, i)
            /\ \A j \in (i + 1)..n : Limb(a, j) = Limb(b, j)

\* The binary64 number nearest to x * 2^-120, ties to even, where inexact
\* says that the value is a little more than x * 2^-120 (a division left a
\* remainder).  The rounding keeps the top 53 bits of x.
RoundToFloat(x, inexact) ==
    IF TopLimb(x) = 0 THEN <<>>
    ELSE LET k == BitLength(x) - MantissaBits
             half == Bit(x, k - 1) = 1
             below == LowBitsNonzero(x, k - 1) \/ inexact
             odd == Bit(x, k) = 1
             kept == ClearLowBits(x, k)
             rounded == IF half /\ (below \/ odd)
                        THEN BigAdd(kept, BigPow2(k)) ELSE kept
         IN  Trim(ShiftLimbsDown(rounded, FractionLimbs))

\* m / n for two ints (true division), and the float literal of a fraction.
FloatDiv(m, n) ==
    LET d == BigDivSmall(ShiftLimbsUp(BigOfInt(m), 2 * FractionLimbs), n)
    IN  RoundToFloat(Trim(d.quot), d.rem # 0)

\* a * b
FloatMul(a, b) == RoundToFloat(BigMul(a, b), FALSE)

\* a + b
FloatAdd(a, b) == RoundToFloat(ShiftLimbsUp(BigAdd(a, b), FractionLimbs), FALSE)

\* a >= b
FloatGE(a, b) == ~BigLess(a, b)

\* round(a): the nearest int, ties to the even one.
PyRound(a) ==
    LET whole == Limb(a, FractionLimbs + 1)
                 + LimbBase * Limb(a, FractionLimbs + 2)
        half == Bit(a, LimbBits * FractionLimbs - 1) = 1
        below == LowBitsNonzero(a, LimbBits * FractionLimbs - 1)
    IN  IF half /\ (below \/ (whole % 2) = 1) THEN whole + 1 ELSE whole

---------------------------------------------------------------------------

\* skill_match with 0 for an analysis without required skills.
SkillMatchZeroWhenEmpty(required_skills_lower, user_skills_lower) ==
    IF required_skills_lower = <<>>
    THEN [num |-> 0, den |-> 1]
    ELSE [num |-> Cardinality({i \in 1..Len(required_skills_lower) :
                        InList(required_skills_lower[i], user_skills_lower)}),
          den |-> Len(required_skills_lower)]

\* skill_match: 0.5 without required skills, else the share of the required
\* skills that the user has.
SkillMatch(required_skills_lower, user_skills_lower) ==
    IF required_skills_lower = <<>>
    THEN [num |-> 1, den |-> 2]
    ELSE [num |-> Cardinality({i \in 1..Len(required_skills_lower) :
                        InList(required_skills_lower[i], user_skills_lower)}),
          den |-> Len(required_skills_lower)]

\* level_scores, in tenths, as a set of <<issue difficulty, user level, score>>.
level_scores ==
    {<<<<"b","e","g","i","n","n","e","r">>, <<"b","e","g","i","n","n","e","r">>, 10>>,
     <<<<"b","e","g","i","n","n","e","r">>, <<"i","n","t","e","r","m","e","d","i","a","t","e">>, 8>>,
     <<<<"b","e","g","i","n","n","e","r">>, <<"a","d","v","a","n","c","e","d">>, 6>>,
     <<<<"i","n","t","e","r","m","e","d","i","a","t","e">>, <<"b","e","g","i","n","n","e","r">>, 5>>,
     <<<<"i","n","t","e","r","m","e","d","i","a","t","e">>, <<"i","n","t","e","r","m","e","d","i","a","t","e">>, 10>>,
     <<<<"i","n","t","e","r","m","e","d","i","a","t","e">>, <<"a","d","v","a","n","c","e","d">>, 8>>,
     <<<<"a","d","v","a","n","c","e","d">>, <<"b","e","g","i","n","n","e","r">>, 3>>,
     <<<<"a","d","v","a","n","c","e","d">>, <<"i","n","t","e","r","m","e","d","i","a","t","e">>, 6>>,
     <<<<"a","d","v","a","n","c","e","d">>, <<"a","d","v","a","n","c","e","d">>, 10>>}

\* The lookup with the two parts of the key in the other order.
LevelMatchSwappedKeys(issue_difficulty, user_level) ==
    LET hits == {e \in level_scores :
                    e[2] = issue_difficulty /\ e[1] = Lower(user_level)}
    IN  IF hits = {} THEN 5 ELSE (CHOOSE e \in hits : TRUE)[3]

\* level_scores.get((issue_difficulty, user_level.lower()), 0.5), in tenths
LevelMatch(issue_difficulty, user_level) ==
    LET hits == {e \in level_scores :
                    e[1] = issue_difficulty /\ e[2] = Lower(user_level)}
    IN  IF hits = {} THEN 5 ELSE (CHOOSE e \in hits : TRUE)[3]

\* The emoji at the head of a clause of the explanation and of a
\* recommendation: one element stands for the characters of the mark.
MarkKnown == <<"mark:known">>

MarkLearn == <<"mark:learn">>

MarkLevel == <<"mark:level">>

MarkExcellent == <<"mark:excellent">>

MarkGood == <<"mark:good">>

MarkModerate == <<"mark:moderate">>

MarkLow == <<"mark:low">>

\* The float literals of the scorer.
SkillWeight == FloatDiv(7, 10)

LevelWeight == FloatDiv(3, 10)

Hundred == FloatDiv(100, 1)

ExcellentFrom == FloatDiv(8, 10)

GoodFrom == FloatDiv(6, 10)

ModerateFrom == FloatDiv(4, 10)

\* _get_recommendation with the good band starting at 0.5.
get_recommendation_GoodFromHalf(match_score) ==
    IF FloatGE(match_score, ExcellentFrom)
    THEN MarkExcellent \o <<" ","E","x","c","e","l","l","e","n","t"," ","m","a","t","c","h","!"," ","S","t","a","r","t"," ","w","o","r","k","i","n","g"," ","o","n"," ","t","h","i","s",".">>
    ELSE IF FloatGE(match_score, FloatDiv(5, 10))
    THEN MarkGood \o <<" ","G","o","o","d"," ","m","a","t","c","h","."," ","M","i","n","o","r"," ","l","e","a","r","n","i","n","g"," ","n","e","e","d","e","d",".">>
    ELSE IF FloatGE(match_score, ModerateFrom)
    THEN MarkModerate \o <<" ","M","o","d","e","r","a","t","e"," ","m","a","t","c","h","."," ","S","o","m","e"," ","l","e","a","r","n","i","n","g"," ","r","e","q","u","i","r","e","d",".">>
    ELSE MarkLow \o <<" ","L","o","w"," ","m","a","t","c","h","."," ","B","e","t","t","e","r"," ","t","o"," ","l","e","a","r","n"," ","m","o","r","e"," ","f","i","r","s","t",".">>

\* _get_recommendation, lines 301-318
_get_recommendation(match_score) ==
    IF FloatGE(match_score, ExcellentFrom)
    THEN MarkExcellent \o <<" ","E","x","c","e","l","l","e","n","t"," ","m","a","t","c","h","!"," ","S","t","a","r","t"," ","w","o","r","k","i","n","g"," ","o","n"," ","t","h","i","s",".">>
    ELSE IF FloatGE(match_score, GoodFrom)
    THEN MarkGood \o <<" ","G","o","o","d"," ","m","a","t","c","h","."," ","M","i","n","o","r"," ","l","e","a","r","n","i","n","g"," ","n","e","e","d","e","d",".">>
    ELSE IF FloatGE(match_score, ModerateFrom)
    THEN MarkModerate \o <<" ","M","o","d","e","r","a","t","e"," ","m","a","t","c","h","."," ","S","o","m","e"," ","l","e","a","r","n","i","n","g"," ","r","e","q","u","i","r","e","d",".">>
    ELSE MarkLow \o <<" ","L","o","w"," ","m","a","t","c","h","."," ","B","e","t","t","e","r"," ","t","o"," ","l","e","a","r","n"," ","m","o","r","e"," ","f","i","r","s","t",".">>

\* overall_match = (skill_match * 0.7) + (level_match * 0.3)
OverallMatch(skill_match, level_match) ==
    FloatAdd(FloatMul(skill_match, SkillWeight),
             FloatMul(level_match, LevelWeight))

\* The numbers of the report for the skill match num / den and the level
\* match tenths / 10.
Scores(num, den, tenths) ==
    LET skill_match == FloatDiv(num, den)
        level_match == FloatDiv(tenths, 10)
        overall_match == OverallMatch(skill_match, level_match)
    IN  [match_percentage |-> PyRound(FloatMul(overall_match, Hundred)),
         skill_match |-> PyRound(FloatMul(skill_match, Hundred)),
         level_match |-> PyRound(FloatMul(level_match, Hundred)),
         recommendation |-> _get_recommendation(overall_match)]

\* The skill matches and level matches the scorer can come to, and Scores on
\* them, evaluated once.
SkillFractions ==
    {<<num, den>> \in (0..MaxRequiredLong) \X (1..(MaxRequiredLong + 1)) :
        num <= den}

LevelTenths == {e[3] : e \in level_scores} \cup {5}

ScoreTable ==
    [x \in SkillFractions \X LevelTenths |-> Scores(x[1][1], x[1][2], x[2])]
    @@ <<>>

\* explanation_parts, lines 271-287
ExplanationParts(matching, missing, issue_difficulty, user_level) ==
    (IF matching # <<>>
     THEN << MarkKnown \o <<" ","Y","o","u"," ","k","n","o","w",":"," ">> \o Join(matching, <<","," ">>) >>
     ELSE <<>>)
    \o (IF missing # <<>>
        THEN << MarkLearn \o <<" ","Y","o","u"," ","n","e","e","d"," ","t","o"," ","l","e","a","r","n",":"," ">> \o Join(missing, <<","," ">>) >>
        ELSE <<>>)
    \o (IF issue_difficulty # Lower(user_level)
        THEN << MarkLevel \o <<" ","I","s","s","u","e"," ","i","s"," ">> \o issue_difficulty
                \o <<","," ","y","o","u","'","r","e"," ">> \o Lower(user_level) >>
        ELSE <<>>)

\* The report of calculate_match_score.
calculate_match_score(issue_analysis, user_skills, user_level) ==
    LET user_skills_lower == LowerAll(user_skills)
        required_skills == DictGet(issue_analysis, "skills_required", <<>>)
        required_skills_lower == LowerAll(required_skills)
        skill_match == SkillMatch(required_skills_lower, user_skills_lower)
        issue_difficulty == DictGet(issue_analysis, "difficulty", <<"u","n","k","n","o","w","n">>)
        level_match == LevelMatch(issue_difficulty, user_level)
        scores == ScoreTable[<< <<skill_match.num, skill_match.den>>, level_match >>]
        matching_skills_list ==
            SelectSkills(required_skills, user_skills_lower, TRUE)
        missing_skills_list ==
            SelectSkills(required_skills, user_skills_lower, FALSE)
    IN  [match_percentage |-> scores.match_percentage,
         skill_match |-> scores.skill_match,
         level_match |-> scores.level_match,
         explanation |->
            Join(ExplanationParts(matching_skills_list, missing_skills_list,
                                  issue_difficulty, user_level), <<" ","|"," ">>),
         matching_skills |-> matching_skills_list,
         missing_skills |-> missing_skills_list,
         recommendation |-> scores.recommendation]

---------------------------------------------------------------------------
(* The scorer as a pure function: SpecScorer applies it to bounded inputs.  *)

RequiredSkillNames == {<<"P","y","t","h","o","n">>, <<"g","i","t">>}

UserSkillNames == {<<"p","y","t","h","o","n">>, <<"G","i","t">>, <<"J","a","v","a">>}

Difficulties ==
    {<<"b","e","g","i","n","n","e","r">>, <<"i","n","t","e","r","m","e","d","i","a","t","e">>, <<"a","d","v","a","n","c","e","d">>, <<"u","n","k","n","o","w","n">>, <<"B","e","g","i","n","n","e","r">>}

UserLevels ==
    {<<"b","e","g","i","n","n","e","r">>, <<"i","n","t","e","r","m","e","d","i","a","t","e">>, <<"a","d","v","a","n","c","e","d">>, <<"B","E","G","I","N","N","E","R">>, <<"I","n","t","e","r","m","e","d","i","a","t","e">>,
     <<"e","x","p","e","r","t">>}

SkillLists(names, longest) == UNION {[1..n -> names] : n \in 0..longest}

\* The longer lists of required skills: git a number of times, then Python.
LongSkillLists ==
    {[i \in 1..n |-> IF i <= k THEN <<"g","i","t">> ELSE <<"P","y","t","h","o","n">>] :
        n \in (MaxRequired + 1)..MaxRequiredLong, k \in 0..MaxRequiredLong}

\* The analyses handed to the scorer: with both keys, and without one of them.
ScoredAnalyses ==
    {[difficulty |-> d, skills_required |-> r] :
        d \in Difficulties,
        r \in SkillLists(RequiredSkillNames, MaxRequired) \cup LongSkillLists}
    \cup {[difficulty |-> d] : d \in Difficulties}
    \cup {[skills_required |-> r] :
                r \in SkillLists(RequiredSkillNames, MaxRequired)}

InitScorer ==
    /\ analysis_cache = <<>>
    /\ ai_calls = 0
    /\ last = [op |-> "none"]
    /\ succeeded = {}
    /\ pc = "ready"
    /\ response_text = <<>>
    /\ parsed = <<>>
    /\ match_args \in
        {[issue_analysis |-> a, user_skills |-> u, user_level |-> l] :
            a \in ScoredAnalyses,
            u \in SkillLists(UserSkillNames, MaxSkills),
            l \in UserLevels}
    /\ match_report = <<>>

\* One application of calculate_match_score to the arguments of InitScorer.
CalculateMatchScore ==
    /\ pc = "ready"
    /\ pc' = "done"
    /\ match_report' = calculate_match_score(match_args.issue_analysis,
                            match_args.user_skills, match_args.user_level)
    /\ UNCHANGED <<analysis_cache, ai_calls, last, succeeded, response_text,
                   parsed, match_args>>

NextScorer == CalculateMatchScore

SpecScorer == InitScorer /\ [][NextScorer]_vars

---------------------------------------------------------------------------
(* Claims about analyze_issue, checked under Spec.                          *)

\* The last operation was an analyze_issue call that invoked the AI
\* capability, and the capability failed.
LastCallFailed ==
    /\ last.op = "analyze_issue"
    /\ last.called
    /\ ~last.ai.ok

\* C1: once a call with a given (title, description) has returned an analysis,
\* every later call with the same (title, description) returns the cached
\* result without invoking the AI capability: the call counter stays.
C1_CachedCallSkipsAI ==
    [][\A issue \in Issues :
        ( /\ <<issue.title, issue.description>> \in succeeded
          /\ last'.op = "analyze_issue"
          /\ last'.title = issue.title
          /\ last'.description = issue.description )
        => /\ ai_calls' = ai_calls
           /\ ~last'.called
           /\ last'.status = "returned"
           /\ last'.result =
                analysis_cache[CacheKey(issue.title, issue.description)]
           /\ analysis_cache' = analysis_cache]_vars

\* A call was served from the cache with the result of an earlier call on the
\* very same title and description.
C1_Witness ==
    /\ last.op = "analyze_issue"
    /\ ~last.called
    /\ ai_calls >= 1
    /\ <<last.title, last.description>> \in succeeded
    /\ last.result.original_title = last.title
    /\ last.result.original_description =
            Prefix(last.description, OriginalDescriptionChars)

\* C2: a call in which the AI capability fails stores nothing: the cache is
\* as before and holds no entry for the call's fingerprint, and the next call
\* with the same inputs invokes the AI capability again.
C2_FailureNotCached ==
    [][ /\ ( /\ last'.op = "analyze_issue"
             /\ last'.called
             /\ ~last'.ai.ok )
           => /\ analysis_cache' = analysis_cache
              /\ CacheKey(last'.title, last'.description)
                    \notin DOMAIN analysis_cache'
        /\ ( /\ LastCallFailed
             /\ last'.op = "analyze_issue"
             /\ last'.title = last.title
             /\ last'.description = last.description )
           => /\ last'.called
              /\ ai_calls' = ai_calls + 1 ]_vars

\* A call failed on an analyzer whose cache holds other results, and the
\* caller can still call again.
C2_Witness ==
    /\ LastCallFailed
    /\ analysis_cache # <<>>
    /\ ai_calls < MaxCalls

\* C3: whatever provider failure the AI capability reports, analyze_issue
\* returns a result with an error field and does not raise.
C3_NeverRaises ==
    ( /\ LastCallFailed
      /\ last.ai.exc \in ProviderFailures )
    => /\ last.status = "returned"
       /\ "error" \in DOMAIN last.result

\* The error kinds of the classification.
ErrorKinds ==
    {"model_not_found", "invalid_request", "permission_denied",
     "quota_exceeded", "generic_api_error", "network_error", "timeout"}

\* C4: the result of a call in which the AI capability failed carries, in its
\* error field, one of the seven kinds, carries a message, and carries a
\* remediation hint when the kind is model_not_found or permission_denied.
C4_ErrorKindClassified ==
    ( /\ LastCallFailed
      /\ last.status = "returned" )
    => /\ "error" \in DOMAIN last.result
       /\ last.result.error \in ErrorKinds
       /\ "message" \in DOMAIN last.result
       /\ last.result.error \in {"model_not_found", "permission_denied"}
            => "solution" \in DOMAIN last.result

\* The values an error result may carry in the analysis fields: the defaults.
AnalysisDefaults ==
    [difficulty |-> <<"u","n","k","n","o","w","n">>,
     skills_required |-> <<>>,
     estimated_hours |-> <<"u","n","k","n","o","w","n">>,
     good_for_beginners |-> FALSE,
     concepts_needed |-> <<>>,
     explanation |-> <<>>]

\* The analysis fields every successful result carries.
AnalysisFields ==
    {"difficulty", "skills_required", "estimated_hours", "explanation"}

\* Either an analysis without an error field, or an error field with no
\* analysis value other than a default.
ExactlyOnePopulated(r) ==
    IF "error" \in DOMAIN r
    THEN /\ "good_for_gsoc" \notin DOMAIN r
         /\ \A k \in DOMAIN r \cap DOMAIN AnalysisDefaults :
                r[k] = AnalysisDefaults[k]
    ELSE AnalysisFields \subseteq DOMAIN r

C7_SevenFieldResult ==
    ( /\ last.op = "analyze_issue"
      /\ last.called
      /\ last.ai.ok
      /\ last.ai.text = SevenFieldReply )
    => /\ last.status = "returned"
       /\ "error" \notin DOMAIN last.result
       /\ {"difficulty", "skills", "estimated_time", "gsoc_friendly",
           "category", "priority", "reasoning", "raw_response"}
                \subseteq DOMAIN last.result
       /\ last.result.difficulty = <<"b","e","g","i","n","n","e","r">>
       /\ last.result.skills = << <<"M","a","r","k","d","o","w","n">> >>
       /\ last.result.category = <<"d","o","c","u","m","e","n","t","a","t","i","o","n">>
       /\ last.result.priority = <<"l","o","w">>
       /\ last.result.raw_response = SevenFieldReply

---------------------------------------------------------------------------
(* Claims about the response parser, checked under SpecParser.              *)

\* Whether text contains the piece sub.
Contains(text, sub) ==
    \E i \in 0..(Len(text) - Len(sub)) : SubSeq(text, i + 1, i + Len(sub)) = sub

\* Whether the reply names the word, in any letter case.
Mentions(text, word) == Contains(Lower(text), Lower(word))

\* C8: the parser returns a record for every text, and a field whose line is
\* missing is in the record at its default: difficulty unknown, skills_required
\* empty, GSOC suitability unknown, explanation empty.
C8_MissingFieldsAtDefault ==
    pc = "done" =>
        /\ {"difficulty", "skills_required", "explanation"} \subseteq DOMAIN parsed
        /\ ~Mentions(response_text, <<"D","I","F","F","I","C","U","L","T","Y">>)
                => parsed.difficulty = <<"u","n","k","n","o","w","n">>
        /\ ~Mentions(response_text, <<"S","K","I","L","L","S">>)
                => parsed.skills_required = <<>>
        /\ ~Mentions(response_text, <<"E","X","P","L","A","N","A","T","I","O","N">>)
                => parsed.explanation = <<>>
        /\ ( ~Mentions(response_text, <<"G","S","O","C">>)
             /\ ~Mentions(response_text, <<"F","R","I","E","N","D","L","Y">>) )
                => /\ "good_for_gsoc" \in DOMAIN parsed
                   /\ parsed.good_for_gsoc = <<"u","n","k","n","o","w","n">>

\* The prefixes by which the parser recognises the line of a field.
FieldPrefixes ==
    {<<"D","I","F","F","I","C","U","L","T","Y",":">>, <<"S","K","I","L","L","S",":">>, <<"T","I","M","E","_","E","S","T","I","M","A","T","E",":">>, <<"G","O","O","D","_","F","O","R","_","G","S","O","C",":">>,
     <<"C","O","N","C","E","P","T","S",":">>, <<"E","X","P","L","A","N","A","T","I","O","N",":">>}

\* The prefixes of FieldPrefixes the line starts with: at most one.
LineField(raw) == {f \in FieldPrefixes : StartsWith(Strip(raw), f)}

\* No two lines are lines of the same field.
AtMostOncePerField(lines) ==
    \A i, j \in 1..Len(lines) :
        i # j => LineField(lines[i]) \cap LineField(lines[j]) = {}

\* The orders of n lines.
Perms(n) == {p \in [1..n -> 1..n] : \A i, j \in 1..n : p[i] = p[j] => i = j}

\* C9: when every field has at most one line, the parser returns the same
\* record for the lines in every order.
C9_LineOrderIrrelevant ==
    pc = "done" =>
        LET lines == Split(response_text, "\n")
        IN  AtMostOncePerField(lines) =>
                \A p \in Perms(Len(lines)) :
                    _parse_ai_response(
                        Join([i \in 1..Len(lines) |-> lines[p[i]]], <<"\n">>))
                    = parsed

\* A reply was parsed whose EXPLANATION line precedes its DIFFICULTY line and
\* its GOOD_FOR_GSOC line, and all three fields were read.
C9_Witness ==
    /\ pc = "done"
    /\ LET lines == Split(response_text, "\n")
       IN  /\ Len(lines) = 3
           /\ AtMostOncePerField(lines)
           /\ StartsWith(lines[1], <<"E","X","P","L","A","N","A","T","I","O","N",":">>)
           /\ StartsWith(lines[2], <<"G","O","O","D","_","F","O","R","_","G","S","O","C",":">>)
           /\ StartsWith(lines[3], <<"D","I","F","F","I","C","U","L","T","Y",":">>)
    /\ parsed.explanation = <<"o","k">>
    /\ parsed.difficulty = <<"b","e","g","i","n","n","e","r">>
    /\ parsed.good_for_beginners
    /\ parsed.good_for_gsoc

---------------------------------------------------------------------------
(* Claims about batch_analyze, checked under SpecBatch.                     *)

---------------------------------------------------------------------------
(* Claims about calculate_match_score, checked under SpecScorer.            *)

\* C10: for an analysis whose skills_required is empty (or absent, which the
\* scorer reads as empty) the report has skill_match 50, whatever the user's
\* skills and level.
C10_NoRequiredSkillsScoreFifty ==
    ( /\ pc = "done"
      /\ DictGet(match_args.issue_analysis, "skills_required", <<>>) = <<>> )
    => match_report.skill_match = 50

\* The scorer was applied to an analysis without required skills for a user
\* who has skills.
C10_Witness ==
    /\ pc = "done"
    /\ "skills_required" \in DOMAIN match_args.issue_analysis
    /\ match_args.issue_analysis.skills_required = <<>>
    /\ Len(match_args.user_skills) = MaxSkills
    /\ match_report.skill_match = 50
    /\ match_report.matching_skills = <<>>
    /\ match_report.missing_skills = <<>>

\* The level table of the scoring rules, in percent: the rows are the issue
\* difficulties, the columns the user levels; 50 for every other pair.
TablePercent(difficulty, level) ==
    CASE difficulty = <<"b","e","g","i","n","n","e","r">> /\ level = <<"b","e","g","i","n","n","e","r">> -> 100
      [] difficulty = <<"b","e","g","i","n","n","e","r">> /\ level = <<"i","n","t","e","r","m","e","d","i","a","t","e">> -> 80
      [] difficulty = <<"b","e","g","i","n","n","e","r">> /\ level = <<"a","d","v","a","n","c","e","d">> -> 60
      [] difficulty = <<"i","n","t","e","r","m","e","d","i","a","t","e">> /\ level = <<"b","e","g","i","n","n","e","r">> -> 50
      [] difficulty = <<"i","n","t","e","r","m","e","d","i","a","t","e">> /\ level = <<"i","n","t","e","r","m","e","d","i","a","t","e">> -> 100
      [] difficulty = <<"i","n","t","e","r","m","e","d","i","a","t","e">> /\ level = <<"a","d","v","a","n","c","e","d">> -> 80
      [] difficulty = <<"a","d","v","a","n","c","e","d">> /\ level = <<"b","e","g","i","n","n","e","r">> -> 30
      [] difficulty = <<"a","d","v","a","n","c","e","d">> /\ level = <<"i","n","t","e","r","m","e","d","i","a","t","e">> -> 60
      [] difficulty = <<"a","d","v","a","n","c","e","d">> /\ level = <<"a","d","v","a","n","c","e","d">> -> 100
      [] OTHER -> 50

\* The difficulty the scorer reads from the analysis.
ArgDifficulty == DictGet(match_args.issue_analysis, "difficulty", <<"u","n","k","n","o","w","n">>)

\* C11: for a lower-case issue difficulty and a lower-case user level,
\* level_match is 100 times the table entry of the pair, and 50 for a pair
\* that is not in the table.
C11_LevelMatchFromTable ==
    ( /\ pc = "done"
      /\ Lower(ArgDifficulty) = ArgDifficulty
      /\ Lower(match_args.user_level) = match_args.user_level )
    => match_report.level_match =
            TablePercent(ArgDifficulty, match_args.user_level)

\* An advanced issue was scored for a beginner: level_match is 30.
C11_Witness ==
    /\ pc = "done"
    /\ ArgDifficulty = <<"a","d","v","a","n","c","e","d">>
    /\ match_args.user_level = <<"b","e","g","i","n","n","e","r">>
    /\ match_report.level_match = 30

\* The analysis with its difficulty, when it has one, in lower case.
LowerDifficulty(analysis) ==
    IF "difficulty" \in DOMAIN analysis
    THEN DictSet(analysis, "difficulty", Lower(analysis.difficulty))
    ELSE analysis

\* C12: the letter case of the analysis's difficulty and of user_level does
\* not change level_match: the report has the level_match of the same call
\* with both in lower case, so difficulty Beginner with level BEGINNER has
\* level_match 100.
C12_LevelMatchIgnoresCase ==
    pc = "done" =>
        /\ match_report.level_match =
                calculate_match_score(
                    LowerDifficulty(match_args.issue_analysis),
                    match_args.user_skills,
                    Lower(match_args.user_level)).level_match
        /\ ( /\ ArgDifficulty = <<"B","e","g","i","n","n","e","r">>
             /\ match_args.user_level = <<"B","E","G","I","N","N","E","R">> )
                => match_report.level_match = 100

\* The required skills the scorer reads from the analysis.
ArgRequired == DictGet(match_args.issue_analysis, "skills_required", <<>>)

\* The user's skills in lower case, as a set.
UserSkillSet ==
    {Lower(match_args.user_skills[i]) : i \in 1..Len(match_args.user_skills)}

SkillFraction ==
    IF ArgRequired = <<>> THEN [num |-> 1, den |-> 2]
    ELSE [num |-> Len(match_report.matching_skills), den |-> Len(ArgRequired)]

\* 0.7 * s + 0.3 * l in thousandths of the denominator of s, for the skill
\* fraction s and the level-table value l = level_match / 100 of the report.
OverallNumerator ==
    700 * SkillFraction.num + 3 * match_report.level_match * SkillFraction.den

OverallDenominator == 1000 * SkillFraction.den

\* C14: match_percentage is round(100 * (0.7 * s + 0.3 * l)) for the
\* unrounded skill fraction s and level-table value l, and match_percentage,
\* skill_match and level_match are integers from 0 to 100.
C14_MatchPercentageWeighted ==
    pc = "done" =>
        /\ match_report.match_percentage =
                RoundPercent(OverallNumerator, OverallDenominator)
        /\ match_report.match_percentage \in 0..100
        /\ match_report.skill_match \in 0..100
        /\ match_report.level_match \in 0..100

\* The four recommendations.
ExcellentText == MarkExcellent \o <<" ","E","x","c","e","l","l","e","n","t"," ","m","a","t","c","h","!"," ","S","t","a","r","t"," ","w","o","r","k","i","n","g"," ","o","n"," ","t","h","i","s",".">>

GoodText == MarkGood \o <<" ","G","o","o","d"," ","m","a","t","c","h","."," ","M","i","n","o","r"," ","l","e","a","r","n","i","n","g"," ","n","e","e","d","e","d",".">>

ModerateText == MarkModerate \o <<" ","M","o","d","e","r","a","t","e"," ","m","a","t","c","h","."," ","S","o","m","e"," ","l","e","a","r","n","i","n","g"," ","r","e","q","u","i","r","e","d",".">>

LowText == MarkLow \o <<" ","L","o","w"," ","m","a","t","c","h","."," ","B","e","t","t","e","r"," ","t","o"," ","l","e","a","r","n"," ","m","o","r","e"," ","f","i","r","s","t",".">>

\* C15: the recommendation is the band of the unrounded overall match
\* 0.7 * s + 0.3 * l, each band with its lower bound: excellent from 0.8,
\* good from 0.6, moderate from 0.4, low below; a score of exactly 0.8, 0.6
\* or 0.4 is in the higher band.
C15_RecommendationBands ==
    pc = "done" =>
        match_report.recommendation =
            IF 10 * OverallNumerator >= 8 * OverallDenominator
            THEN ExcellentText
            ELSE IF 10 * OverallNumerator >= 6 * OverallDenominator
            THEN GoodText
            ELSE IF 10 * OverallNumerator >= 4 * OverallDenominator
            THEN ModerateText
            ELSE LowText

\* The three clauses of an explanation.
KnownClause ==
    MarkKnown \o <<" ","Y","o","u"," ","k","n","o","w",":"," ">> \o Join(match_report.matching_skills, <<","," ">>)

LearnClause ==
    MarkLearn \o <<" ","Y","o","u"," ","n","e","e","d"," ","t","o"," ","l","e","a","r","n",":"," ">>
    \o Join(match_report.missing_skills, <<","," ">>)

LevelClause ==
    MarkLevel \o <<" ","I","s","s","u","e"," ","i","s"," ">> \o ArgDifficulty \o <<","," ","y","o","u","'","r","e"," ">>
    \o Lower(match_args.user_level)

\* The clauses that apply when the levels are compared as levelsDiffer says.
ApplicableClauses(levelsDiffer) ==
    (IF match_report.matching_skills # <<>> THEN <<KnownClause>> ELSE <<>>)
    \o (IF match_report.missing_skills # <<>> THEN <<LearnClause>> ELSE <<>>)
    \o (IF levelsDiffer THEN <<LevelClause>> ELSE <<>>)

\* C16: the explanation is the clauses that apply, in the order known
\* skills, skills to learn, level note, joined by the separator: the first
\* iff matching_skills is not empty, the second iff missing_skills is not
\* empty, the third iff the issue difficulty and the user level differ when
\* compared without regard to letter case; it is empty when none applies.
C16_ExplanationClauses ==
    pc = "done" =>
        LET clauses ==
                ApplicableClauses(Lower(ArgDifficulty)
                                    # Lower(match_args.user_level))
        IN  /\ match_report.explanation = Join(clauses, <<" ","|"," ">>)
            /\ clauses = <<>> => match_report.explanation = <<>>

---------------------------------------------------------------------------
(* Claims about the field keys of the response parser, in SpecParser.       *)

\* The upper-case letter of every lower-case letter, and str.upper().
ToUpper ==
    [c \in {LowerLetters[i] : i \in 1..Len(LowerLetters)} |->
        UpperLetters[CHOOSE i \in 1..Len(LowerLetters) : LowerLetters[i] = c]]

Upper(s) == [i \in 1..Len(s) |-> IF s[i] \in DOMAIN ToUpper THEN ToUpper[s[i]] ELSE s[i]]

\* The key of a line: the text before its first colon, trimmed and in upper
\* case; the empty text for a line without a colon.
KeyOf(raw) ==
    LET i == IndexOf(raw, ":")
    IN  IF i = 0 THEN <<>> ELSE Upper(Strip(SubSeq(raw, 1, i - 1)))

\* The lines of the reply.
ReplyLines == Split(Strip(response_text), "\n")

\* The lines of the reply whose key contains one of the words.
LinesKeyed(words) ==
    {i \in 1..Len(ReplyLines) :
        \E w \in words : Contains(KeyOf(ReplyLines[i]), w)}

\* The value of the only line of the set: the text after its first colon,
\* trimmed.
OnlyValue(lineSet) ==
    Strip(AfterColon(ReplyLines[CHOOSE i \in lineSet : TRUE]))

\* C17: a line is the line of a field when its key, the text before the
\* first colon trimmed and upper-cased, contains the word of the field: a
\* key with DIFFICULTY in any letter case sets the difficulty, a key with
\* TIME sets the time field, a key with GSOC or FRIENDLY sets the
\* GSOC-suitability field.  Stated for replies with one such line per field.
C17_KeyMatchedBySubstring ==
    pc = "done" =>
        /\ Cardinality(LinesKeyed({<<"D","I","F","F","I","C","U","L","T","Y">>})) = 1
                => parsed.difficulty =
                        Lower(OnlyValue(LinesKeyed({<<"D","I","F","F","I","C","U","L","T","Y">>})))
        /\ Cardinality(LinesKeyed({<<"T","I","M","E">>})) = 1
                => parsed.estimated_hours = OnlyValue(LinesKeyed({<<"T","I","M","E">>}))
        /\ Cardinality(LinesKeyed({<<"G","S","O","C">>, <<"F","R","I","E","N","D","L","Y">>})) = 1
                => /\ "good_for_gsoc" \in DOMAIN parsed
                   /\ parsed.good_for_gsoc =
                        (Lower(OnlyValue(LinesKeyed({<<"G","S","O","C">>, <<"F","R","I","E","N","D","L","Y">>})))
                            = <<"y","e","s">>)

---------------------------------------------------------------------------
(* Claims about the cache of analyze_issue over its lifetime, in Spec.      *)

\* C18: a call served from the cache leaves the cache as it is; an entry,
\* once stored, stays in the cache with the same result; and the cache
\* changes only in a call that missed the cache, invoked the AI capability
\* and returned an analysis.
C18_CacheOnlyGrows ==
    [][ /\ \A k \in DOMAIN analysis_cache :
                /\ k \in DOMAIN analysis_cache'
                /\ analysis_cache'[k] = analysis_cache[k]
        /\ (last'.op = "analyze_issue" /\ ~last'.called)
                => analysis_cache' = analysis_cache
        /\ analysis_cache' # analysis_cache
                => /\ last'.op = "analyze_issue"
                   /\ last'.called
                   /\ last'.ai.ok
                   /\ last'.status = "returned"
                   /\ "error" \notin DOMAIN last'.result
                   /\ CacheKey(last'.title, last'.description)
                        \notin DOMAIN analysis_cache ]_vars

\* Two analyses are in the cache and the last call was served from it.
C18_Witness ==
    /\ last.op = "analyze_issue"
    /\ ~last.called
    /\ last.status = "returned"
    /\ Cardinality(DOMAIN analysis_cache) >= 2

\* The labels a caller passed, empty when it passed none.
LabelsPassed(labels) == IF labels.given THEN labels.list ELSE <<>>

\* C19: a result without an error field that analyze_issue returns, computed
\* or served from the cache, carries the title of the call as original_title,
\* the first 200 characters of the call's description as
\* original_description and the call's labels as labels.
C19_ResultDescribesItsCall ==
    ( /\ last.op = "analyze_issue"
      /\ last.status = "returned"
      /\ "error" \notin DOMAIN last.result )
    => /\ last.result.original_title = last.title
       /\ last.result.original_description =
                Prefix(last.description, OriginalDescriptionChars)
       /\ last.result.labels = LabelsPassed(last.labels)

\* C20: a call is served from the cache entry that another call stored only
\* when the two calls have the same title and descriptions with the same
\* first 100 characters: calls that differ in the title or in those
\* characters have different fingerprints.  The entry carries the title and
\* the description of the call that stored it.
C20_FingerprintInjective ==
    ( /\ last.op = "analyze_issue"
      /\ ~last.called
      /\ last.status = "returned" )
    => /\ last.result.original_title = last.title
       /\ Prefix(last.result.original_description, CacheKeyDescriptionChars)
            = Prefix(last.description, CacheKeyDescriptionChars)

---------------------------------------------------------------------------
(* Claims about the recommendation and the reported percentage, in          *)
(* SpecScorer.                                                              *)

\* C21 as stated: the recommendation is the band of the reported
\* match_percentage: excellent iff it is at least 80, good iff it is from 60
\* to 79, moderate iff it is from 40 to 59, low iff it is below 40.
C21_BandAgreesWithPercentage ==
    pc = "done" =>
        /\ match_report.recommendation = ExcellentText
                <=> match_report.match_percentage >= 80
        /\ match_report.recommendation = GoodText
                <=> match_report.match_percentage \in 60..79
        /\ match_report.recommendation = ModerateText
                <=> match_report.match_percentage \in 40..59
        /\ match_report.recommendation = LowText
                <=> match_report.match_percentage < 40

\* C21 as amended: the recommendation is one of the four, and it is the band
\* of the reported match_percentage unless the percentage is exactly 80, 60
\* or 40, where it may also be the band below: excellent only from 80, good
\* only from 60 to 80, moderate only from 40 to 60, low only up to 40.
C21_BandWithinRoundedPercentage ==
    pc = "done" =>
        /\ match_report.recommendation
                \in {ExcellentText, GoodText, ModerateText, LowText}
        /\ match_report.recommendation = ExcellentText
                => match_report.match_percentage >= 80
        /\ match_report.recommendation = GoodText
                => match_report.match_percentage \in 60..80
        /\ match_report.recommendation = ModerateText
                => match_report.match_percentage \in 40..60
        /\ match_report.recommendation = LowText
                => match_report.match_percentage <= 40

\* A report whose overall match is below 0.4 and rounds to 40 percent: the
\* recommendation is low and match_percentage is 40.
C21_Witness ==
    /\ pc = "done"
    /\ 10 * OverallNumerator < 4 * OverallDenominator
    /\ match_report.match_percentage = 40
    /\ match_report.recommendation = LowText

====
